---- MODULE Spec2Model ----
(***************************************************************************)
(* Pet Next Door: the community alert list (community/views.py) and the    *)
(* Haversine distance it filters by.                                       *)
(*                                                                         *)
(* Number representation.  Python floats are modelled as fixed-point       *)
(* integers rounded to nearest, as IEEE arithmetic rounds to nearest:      *)
(*   - degrees are whole numbers (the stored Decimal coordinates of the    *)
(*     model are whole degrees, which float() converts exactly);           *)
(*   - radians, sines, cosines and the haversine term a carry Scale        *)
(*     (four) decimal places;                                              *)
(*   - kilometres (radius and distance) carry Scale decimal places.        *)
(* None is the absent value of a nullable field or of a GET parameter.     *)
(* A call that may raise returns a record whose exc field names the        *)
(* exception (None when it returned normally).                             *)
(***************************************************************************)
EXTENDS Integers, Sequences, FiniteSets, TLC

VARIABLES users, alerts, clock, response, points, fwd, bwd,
          session, lastAuthEvent, db, listing

vars == <<users, alerts, clock, response, points, fwd, bwd,
          session, lastAuthEvent, db, listing>>

\* Python's None, and a present value: an optional value is a sequence of
\* length 0 or 1.
None == <<>>

Some(x) == <<x>>

Val(o) == o[1]

\* The element of a one-element set.  The({e(x) : x \in {v}}) is e(v) with
\* v computed once, as Python's assignment x = v followed by e(x).
The(S) == CHOOSE x \in S : TRUE

(***************************************************************************)
(* Fixed-point arithmetic                                                  *)
(***************************************************************************)
Scale == 10000

\* pi in Scale units (math.pi)
PiS == 31416

HalfPiS == 15708

\* n / d rounded to nearest, symmetric in the sign of n (d > 0)
RoundDiv[n \in Int, d \in Int] ==
    IF n >= 0 THEN (2 * n + d) \div (2 * d)
              ELSE 0 - ((2 * (0 - n) + d) \div (2 * d))

\* x * y of two Scale-d numbers
Mul[x \in Int, y \in Int] == RoundDiv[x * y, Scale]

Abs[x \in Int] == IF x < 0 THEN 0 - x ELSE x

\* x ** 2
Square[x \in Int] == Mul[x, x]

(***************************************************************************)
(* The functions of Python's math module.  They are functions, applied     *)
(* with [ ], so that an argument is evaluated once, before the call.       *)
(***************************************************************************)
\* math.radians: whole degrees -> radians in Scale units
Radians[deg \in Int] == RoundDiv[deg * PiS, 180]

\* sine of x in [0, pi], by reflection into [0, pi/2] and the Taylor
\* polynomial x - x^3/3! + x^5/5! - x^7/7! + x^9/9! - x^11/11!
SinPos[x \in Nat] ==
    LET y  == IF x > HalfPiS THEN PiS - x ELSE x
        y2 == Mul[y, y]
        t5 == Scale - RoundDiv[y2, 110]
        t4 == Scale - RoundDiv[y2 * t5, 72 * Scale]
        t3 == Scale - RoundDiv[y2 * t4, 42 * Scale]
        t2 == Scale - RoundDiv[y2 * t3, 20 * Scale]
        t1 == Scale - RoundDiv[y2 * t2, 6 * Scale]
    IN  Mul[y, t1]

\* math.sin on [-pi, pi]
Sin[x \in Int] == (IF x < 0 THEN 0 - 1 ELSE 1) * SinPos[Abs[x]]

\* math.cos on [-pi/2, pi/2]: 1 - x^2/2! + x^4/4! - ... + x^10/10!
Cos[x \in Int] ==
    LET y  == Abs[x]
        y2 == Mul[y, y]
        t5 == Scale - RoundDiv[y2, 90]
        t4 == Scale - RoundDiv[y2 * t5, 56 * Scale]
        t3 == Scale - RoundDiv[y2 * t4, 30 * Scale]
        t2 == Scale - RoundDiv[y2 * t3, 12 * Scale]
    IN  Scale - RoundDiv[y2 * t2, 2 * Scale]

\* largest r in lo..hi with r*r <= n
ISqrtIter[n \in Nat, lo \in Nat, hi \in Nat] ==
    IF lo >= hi THEN lo
    ELSE IF ((lo + hi + 1) \div 2) * ((lo + hi + 1) \div 2) <= n
         THEN ISqrtIter[n, (lo + hi + 1) \div 2, hi]
         ELSE ISqrtIter[n, lo, ((lo + hi + 1) \div 2) - 1]

\* r or r + 1, whichever is nearer to the square root of n (r its floor)
NearestRoot[n \in Nat, r \in Nat] == IF n - r * r > r THEN r + 1 ELSE r

\* math.sqrt of a Scale-d number v >= 0, rounded to nearest
Sqrt[v \in Nat] == NearestRoot[v * Scale, ISqrtIter[v * Scale, 0, Scale + 1]]

\* arctangent of u, |u| <= tan(pi/8): u - u^3/3 + u^5/5 - u^7/7 + u^9/9
AtanSmall[u \in Int] ==
    LET u2 == Mul[u, u]
        t4 == Scale - RoundDiv[u2 * 7, 9]
        t3 == Scale - RoundDiv[Mul[u2, t4] * 5, 7]
        t2 == Scale - RoundDiv[Mul[u2, t3] * 3, 5]
        t1 == Scale - RoundDiv[Mul[u2, t2], 3]
    IN  Mul[u, t1]

\* tan(pi/8) in Scale units
TanPi8 == 4142

\* arctangent of t in [0, 1]: atan t = pi/4 + atan((t-1)/(t+1)) above tan(pi/8)
Atan[t \in Nat] ==
    IF t > TanPi8
    THEN RoundDiv[PiS, 4] + AtanSmall[RoundDiv[(t - Scale) * Scale, t + Scale]]
    ELSE AtanSmall[t]

\* math.atan2(y, x) for y >= 0, x >= 0, not both 0
Atan2[y \in Nat, x \in Nat] ==
    IF y <= x THEN Atan[RoundDiv[y * Scale, x]]
              ELSE HalfPiS - Atan[RoundDiv[x * Scale, y]]

(***************************************************************************)
(* CommunityAlertListView._calculate_distance                              *)
(***************************************************************************)
ValueError == "ValueError"

Raise(e) == [exc |-> Some(e), val |-> 0]

Return(v) == [exc |-> None, val |-> v]

\* Earth's radius in kilometers
R == 6371

\* HaversineA with the latitudes added where they are subtracted
HaversineA_SumOfLatitudes(lat1, lon1, lat2, lon2) ==
    LET lat1_rad  == Radians[lat1]
        lat2_rad  == Radians[lat2]
        delta_lat == Radians[lat2 + lat1]
        delta_lon == Radians[lon2 - lon1]
    IN  Square[Sin[RoundDiv[delta_lat, 2]]]
          + Mul[Mul[Cos[lat1_rad], Cos[lat2_rad]],
                Square[Sin[RoundDiv[delta_lon, 2]]]]

\* HaversineA with cos(lat1) taken twice
HaversineA_CosOfFirstTwice(lat1, lon1, lat2, lon2) ==
    LET lat1_rad  == Radians[lat1]
        delta_lat == Radians[lat2 - lat1]
        delta_lon == Radians[lon2 - lon1]
    IN  Square[Sin[RoundDiv[delta_lat, 2]]]
          + Mul[Mul[Cos[lat1_rad], Cos[lat1_rad]],
                Square[Sin[RoundDiv[delta_lon, 2]]]]

\* the haversine term a = sin^2(dlat/2) + cos(lat1) cos(lat2) sin^2(dlon/2)
HaversineA(lat1, lon1, lat2, lon2) ==
    LET lat1_rad  == Radians[lat1]
        lat2_rad  == Radians[lat2]
        delta_lat == Radians[lat2 - lat1]
        delta_lon == Radians[lon2 - lon1]
    IN  Square[Sin[RoundDiv[delta_lat, 2]]]
          + Mul[Mul[Cos[lat1_rad], Cos[lat2_rad]],
                Square[Sin[RoundDiv[delta_lon, 2]]]]

\* Distance in Scale-d kilometres, or ValueError: math.sqrt(1-a) raises
\* "math domain error" when rounding has carried a above 1.
_calculate_distance(lat1, lon1, lat2, lon2) ==
    The({ IF Scale - a < 0
          THEN Raise(ValueError)
          ELSE LET c == 2 * Atan2[Sqrt[a], Sqrt[Scale - a]]
               IN  Return(R * c) :
          a \in {HaversineA(lat1, lon1, lat2, lon2)} })

\* the coordinates of the model: the latitudes and longitudes of users and
\* alerts are drawn from these
Coordinates == [lat : {0 - 12, 0, 12, 20}, lon : {0 - 160, 0, 20}]

\* _calculate_distance over the coordinates of the model, evaluated once
\* for each pair of points
DistanceBetween ==
    [a \in Coordinates, b \in Coordinates |->
        _calculate_distance(a.lat, a.lon, b.lat, b.lon)]

(***************************************************************************)
(* float(radius): the text of the GET parameter is a sequence of           *)
(* characters.  Accepted here, as by Python: an optional sign followed by  *)
(* "nan", "inf", or decimal digits with an optional fraction.  Anything    *)
(* else raises ValueError.  Fraction digits beyond the fourth are dropped. *)
(***************************************************************************)
Digits == {"0", "1", "2", "3", "4", "5", "6", "7", "8", "9"}

DigitVal(c) ==
    CASE c = "0" -> 0 [] c = "1" -> 1 [] c = "2" -> 2 [] c = "3" -> 3
      [] c = "4" -> 4 [] c = "5" -> 5 [] c = "6" -> 6 [] c = "7" -> 7
      [] c = "8" -> 8 [] c = "9" -> 9

IntOfDigits[s \in Seq(Digits)] ==
    IF s = <<>> THEN 0
    ELSE 10 * IntOfDigits[SubSeq(s, 1, Len(s) - 1)] + DigitVal(s[Len(s)])

\* the first four fraction digits as a number of 1/Scale units
FracOfDigits[s \in Seq(Digits)] ==
    LET d(i) == IF i <= Len(s) THEN DigitVal(s[i]) ELSE 0
    IN  1000 * d(1) + 100 * d(2) + 10 * d(3) + d(4)

AllDigits(s) == \A i \in 1..Len(s) : s[i] \in Digits

\* a float: not-a-number, an infinity (v is its sign) or a finite number
NaN == [kind |-> "nan", v |-> 0]

Inf(sign) == [kind |-> "inf", v |-> sign]

Num(v) == [kind |-> "num", v |-> v]

\* the characters of the radius texts
Chars == Digits \cup {"+", "-", ".", "a", "b", "c", "f", "i", "n"}

\* the text without its sign, and the sign
Unsigned(s) == IF s # <<>> /\ s[1] \in {"+", "-"} THEN Tail(s) ELSE s

SignOf(s) == IF s # <<>> /\ s[1] = "-" THEN 0 - 1 ELSE 1

\* the position of the first "." of the text, or one past its end
DotOf(s) ==
    IF \E i \in 1..Len(s) : s[i] = "."
    THEN CHOOSE i \in 1..Len(s) : s[i] = "." /\ \A j \in 1..(i - 1) : s[j] # "."
    ELSE Len(s) + 1

\* the number written by the digits before and after position dot
DecimalNumeral[body \in Seq(Chars), dot \in Nat] ==
    IF /\ AllDigits(SubSeq(body, 1, dot - 1))
       /\ AllDigits(SubSeq(body, dot + 1, Len(body)))
       /\ Len(body) > (IF dot <= Len(body) THEN 1 ELSE 0)
    THEN Return(Num(IntOfDigits[SubSeq(body, 1, dot - 1)] * Scale
                      + FracOfDigits[SubSeq(body, dot + 1, Len(body))]))
    ELSE Raise(ValueError)

Negate(r) == IF r.exc = None THEN Return(Num(0 - r.val.v)) ELSE r

float[s \in Seq(Chars)] ==
    IF Unsigned(s) = <<"n", "a", "n">> THEN Return(NaN)
    ELSE IF Unsigned(s) = <<"i", "n", "f">> THEN Return(Inf(SignOf(s)))
    ELSE IF SignOf(s) < 0
         THEN Negate(DecimalNumeral[Unsigned(s), DotOf(Unsigned(s))])
         ELSE DecimalNumeral[Unsigned(s), DotOf(Unsigned(s))]

\* LessEq with the comparison strict
LessEq_Strict(distance, radius_km) ==
    CASE radius_km.kind = "nan" -> FALSE
      [] radius_km.kind = "inf" -> radius_km.v > 0
      [] radius_km.kind = "num" -> distance < radius_km.v

\* distance <= radius_km for a finite distance and a parsed radius
LessEq(distance, radius_km) ==
    CASE radius_km.kind = "nan" -> FALSE
      [] radius_km.kind = "inf" -> radius_km.v > 0
      [] radius_km.kind = "num" -> distance <= radius_km.v

(***************************************************************************)
(* The store: users (users/models.py) and alerts (community/models.py).    *)
(* alerts is the table of CommunityAlert rows, the row of primary key pk   *)
(* at index pk.  A DecimalField value is an optional whole number.  A text *)
(* whose blanks matter (a location, a contact, a coordinate as submitted)  *)
(* is a sequence of characters; a name, an email or a password is a string *)
(* and users is the table of User rows, the row of a user at its username. *)
(***************************************************************************)
Users == {"u1", "u2", "u3"}

\* CommunityAlert.ALERT_TYPES
ALERT_TYPES == {"LOST", "FOUND", "EMERGENCY"}

\* at most MaxAlerts rows are ever inserted
MaxAlerts == 2

\* bool(x) of an optional Decimal: None and Decimal('0') are both falsy
TruthyDecimal(d) == d # None /\ Val(d) # 0

\* bool(x) of an optional string GET parameter: None and '' are both falsy
TruthyString(p) == p # None /\ Val(p) # <<>>

\* the three registered users: u1 has a position, u2 lives on the equator,
\* u3 has only a latitude
InitUsers ==
    [u \in Users |->
        CASE u = "u1" -> [email        |-> "u1@x.com",
                          password     |-> "pw1",
                          profile_name |-> "One",
                          phone_number |-> "",
                          bio          |-> "",
                          location     |-> <<"i", "n", "n">>,
                          latitude     |-> Some(12),
                          longitude    |-> Some(20)]
          [] u = "u2" -> [email        |-> "u2@x.com",
                          password     |-> "pw2",
                          profile_name |-> "Two",
                          phone_number |-> "",
                          bio          |-> "",
                          location     |-> <<"c", "a", "b", "i", "n">>,
                          latitude     |-> Some(0),
                          longitude    |-> Some(20)]
          [] u = "u3" -> [email        |-> "u3@x.com",
                          password     |-> "pw3",
                          profile_name |-> "Three",
                          phone_number |-> "",
                          bio          |-> "",
                          location     |-> <<>>,
                          latitude     |-> Some(12),
                          longitude    |-> None]]

NoResponse == [view |-> "none"]

\* all orders in which the rows of a set of primary keys can be delivered
Orders(pks) ==
    {s \in [1..Cardinality(pks) -> pks] :
        \A i, j \in 1..Cardinality(pks) : i # j => s[i] # s[j]}

SeqToSet(s) == {s[i] : i \in 1..Len(s)}

\* the tables of users, pets, playdates, message threads and messages,
\* empty, and the next primary key of each
EmptyDb ==
    [users |-> {}, pets |-> {}, playdates |-> {}, threads |-> {},
     messages |-> {},
     next |-> [users |-> 1, pets |-> 1, playdates |-> 1, threads |-> 1,
               messages |-> 1]]

(***************************************************************************)
(* CommunityAlertListView.get_queryset                                     *)
(***************************************************************************)
\* queryset.filter(alert_type=alert_type) when the type parameter is one of
\* the three alert types
FilterType(store, pks, alert_type) ==
    IF alert_type # None /\ Val(alert_type) \in ALERT_TYPES
    THEN {pk \in pks : store[pk].alert_type = Val(alert_type)}
    ELSE pks

\* queryset.filter(is_active=True) unless status is 'all'
FilterStatus(store, pks, status) ==
    IF status # Some("all")
    THEN {pk \in pks : store[pk].is_active}
    ELSE pks

\* the test of line 94 on one alert
HasCoordinates(alert) ==
    TruthyDecimal(alert.latitude) /\ TruthyDecimal(alert.longitude)

\* NearbyLoop that also collects the alerts without coordinates
RECURSIVE NearbyLoop_KeepsMissing(_, _, _, _, _, _, _)
NearbyLoop_KeepsMissing(store, scan, i, user_lat, user_lon, radius_km, nearby_alerts) ==
    IF i > Len(scan) THEN Return(nearby_alerts)
    ELSE LET alert == store[scan[i]]
         IN  IF HasCoordinates(alert)
             THEN The({
                      IF distance.exc # None THEN distance
                      ELSE IF LessEq(distance.val, radius_km)
                      THEN NearbyLoop_KeepsMissing(store, scan, i + 1, user_lat,
                               user_lon, radius_km, Append(nearby_alerts, scan[i]))
                      ELSE NearbyLoop_KeepsMissing(store, scan, i + 1, user_lat,
                               user_lon, radius_km, nearby_alerts) :
                      distance \in
                        {DistanceBetween[[lat |-> user_lat, lon |-> user_lon],
                                         [lat |-> Val(alert.latitude),
                                          lon |-> Val(alert.longitude)]]} })
             ELSE NearbyLoop_KeepsMissing(store, scan, i + 1, user_lat,
                      user_lon, radius_km, Append(nearby_alerts, scan[i]))

\* the loop of lines 92-100 over the rows in the order scan, from row i on:
\* the list nearby_alerts, or the exception raised on the way
RECURSIVE NearbyLoop(_, _, _, _, _, _, _)
NearbyLoop(store, scan, i, user_lat, user_lon, radius_km, nearby_alerts) ==
    IF i > Len(scan) THEN Return(nearby_alerts)
    ELSE LET alert == store[scan[i]]
         IN  IF HasCoordinates(alert)
             THEN The({
                      IF distance.exc # None THEN distance
                      ELSE IF LessEq(distance.val, radius_km)
                      THEN NearbyLoop(store, scan, i + 1, user_lat, user_lon,
                                      radius_km, Append(nearby_alerts, scan[i]))
                      ELSE NearbyLoop(store, scan, i + 1, user_lat, user_lon,
                                      radius_km, nearby_alerts) :
                      distance \in
                        {DistanceBetween[[lat |-> user_lat, lon |-> user_lon],
                                         [lat |-> Val(alert.latitude),
                                          lon |-> Val(alert.longitude)]]} })
             ELSE NearbyLoop(store, scan, i + 1, user_lat, user_lon,
                             radius_km, nearby_alerts)

\* OrderByCreatedDesc ordering by 'created_at': oldest first
RECURSIVE OrderByCreatedDesc_Ascending(_, _)
OrderByCreatedDesc_Ascending(store, pks) ==
    IF pks = {} THEN <<>>
    ELSE LET oldest == CHOOSE pk \in pks :
                           \A other \in pks :
                               store[pk].created_at <= store[other].created_at
         IN  <<oldest>> \o OrderByCreatedDesc_Ascending(store, pks \ {oldest})

\* queryset.order_by('-created_at'): newest first
RECURSIVE OrderByCreatedDesc(_, _)
OrderByCreatedDesc(store, pks) ==
    IF pks = {} THEN <<>>
    ELSE LET newest == CHOOSE pk \in pks :
                           \A other \in pks :
                               store[pk].created_at >= store[other].created_at
         IN  <<newest>> \o OrderByCreatedDesc(store, pks \ {newest})

\* lines 84-87: the loop is entered when a radius is given, the requester
\* is authenticated and has coordinates, and the radius parses
EntersLoop(usrs, request) ==
    /\ TruthyString(request.radius)
    /\ request.user # None
    /\ TruthyDecimal(usrs[Val(request.user)].latitude)
    /\ TruthyDecimal(usrs[Val(request.user)].longitude)
    /\ float[Val(request.radius)].exc = None

\* RadiusFilter returning no row when a radius is asked for and the loop is
\* not entered
RadiusFilter_EmptyWhenSkipped(store, usrs, request, pks, scan) ==
    IF EntersLoop(usrs, request)
    THEN LET user      == usrs[Val(request.user)]
             radius_km == float[Val(request.radius)].val
             user_lat  == Val(user.latitude)
             user_lon  == Val(user.longitude)
         IN  The({ IF nearby.exc # None
                   THEN [filtered |-> FALSE, pks |-> pks]
                   ELSE [filtered |-> TRUE,
                         pks |-> pks \cap SeqToSet(nearby.val)] :
                   nearby \in {NearbyLoop(store, scan, 1, user_lat, user_lon,
                                          radius_km, <<>>)} })
    ELSE IF TruthyString(request.radius)
         THEN [filtered |-> FALSE, pks |-> {}]
         ELSE [filtered |-> FALSE, pks |-> pks]

\* lines 83-104: the radius filter on the candidates pks, iterated in the
\* order scan.  filtered tells whether line 102 was executed.
RadiusFilter(store, usrs, request, pks, scan) ==
    IF EntersLoop(usrs, request)
    THEN LET user      == usrs[Val(request.user)]
             radius_km == float[Val(request.radius)].val
             user_lat  == Val(user.latitude)
             user_lon  == Val(user.longitude)
         IN  The({ IF nearby.exc # None
                   THEN [filtered |-> FALSE, pks |-> pks]
                   ELSE [filtered |-> TRUE,
                         pks |-> pks \cap SeqToSet(nearby.val)] :
                   nearby \in {NearbyLoop(store, scan, 1, user_lat, user_lon,
                                          radius_km, <<>>)} })
    ELSE [filtered |-> FALSE, pks |-> pks]

\* the candidates of the radius filter: the rows left by the type and
\* status filters
Candidates(store, request) ==
    FilterStatus(store, FilterType(store, 1..Len(store), request.type),
                 request.status)

\* the orders in which the loop can receive the candidates; the empty
\* sequence when the loop is not entered and nothing is iterated
ScanOrders(store, usrs, request) ==
    IF EntersLoop(usrs, request)
    THEN Orders(Candidates(store, request))
    ELSE {<<>>}

\* get_queryset without the final order_by: the rows in the order in which
\* the loop met them
get_queryset_Unordered(store, usrs, request, scan) ==
    The({ [scanned  |-> scan,
           filtered |-> q.filtered,
           result   |-> IF q.filtered
                        THEN SelectSeq(scan, LAMBDA pk : pk \in q.pks)
                        ELSE OrderByCreatedDesc(store, q.pks)] :
          q \in {RadiusFilter(store, usrs, request,
                              Candidates(store, request), scan)} })

\* the whole of get_queryset: the rows of the page, in order
get_queryset(store, usrs, request, scan) ==
    The({ [scanned  |-> scan,
           filtered |-> q.filtered,
           result   |-> OrderByCreatedDesc(store, q.pks)] :
          q \in {RadiusFilter(store, usrs, request,
                              Candidates(store, request), scan)} })

(***************************************************************************)
(* Inputs                                                                  *)
(***************************************************************************)
\* the coordinates alerts are created with: none, latitude only, u1's own
\* position, a point on the equator, u1's antipode, a point eight degrees
\* north of u1
AlertPositions ==
    { [latitude |-> None,          longitude |-> None],
      [latitude |-> Some(12),      longitude |-> None],
      [latitude |-> Some(12),      longitude |-> Some(20)],
      [latitude |-> Some(0),       longitude |-> Some(20)],
      [latitude |-> Some(0 - 12),  longitude |-> Some(0 - 160)],
      [latitude |-> Some(20),      longitude |-> Some(20)] }

\* the alert type and is_active flag alerts are created with
PostedKinds ==
    { [alert_type |-> "LOST",  is_active |-> TRUE],
      [alert_type |-> "LOST",  is_active |-> FALSE],
      [alert_type |-> "FOUND", is_active |-> TRUE] }

Posters == {"u1"}

\* the texts of the radius parameter: '', 'abc', 'nan', 'inf', '0', '-5',
\* '2000' and '893.2142', the distance from u1 to the point eight degrees
\* north of it
RadiusTexts ==
    { <<>>,
      <<"a", "b", "c">>,
      <<"n", "a", "n">>,
      <<"i", "n", "f">>,
      <<"0">>,
      <<"-", "5">>,
      <<"2", "0", "0", "0">>,
      <<"8", "9", "3", ".", "2", "1", "4", "2">> }

\* the type and status parameters sent together
FilterParams ==
    { [type |-> None,         status |-> None],
      [type |-> Some("LOST"), status |-> None],
      [type |-> None,         status |-> Some("all")] }

\* u1 sends every radius text; the anonymous requester, u2 and u3 send no
\* radius or '2000'
RequesterParams ==
    [user : {Some("u1")}, radius : {None} \cup {Some(r) : r \in RadiusTexts}]
      \cup [user   : {None, Some("u2"), Some("u3")},
            radius : {None, Some(<<"2", "0", "0", "0">>)}]

Requests ==
    {[user |-> q.user, type |-> f.type, status |-> f.status, radius |-> q.radius] :
        q \in RequesterParams, f \in FilterParams}

(***************************************************************************)
(* Actions                                                                 *)
(***************************************************************************)
\* CommunityAlert.objects.create(...): a new row; created_at is set by
\* auto_now_add, latitude and longitude are nullable
ObjectsCreate(u, kind, pos) ==
    /\ response = NoResponse
    /\ Len(alerts) < MaxAlerts
    /\ alerts' = Append(alerts, [user       |-> u,
                                 alert_type |-> kind.alert_type,
                                 location   |-> <<"i", "n", "n">>,
                                 contact_info |-> <<"5", "5", "5">>,
                                 latitude   |-> pos.latitude,
                                 longitude  |-> pos.longitude,
                                 is_active  |-> kind.is_active,
                                 created_at |-> clock])
    /\ clock' = clock + 1
    /\ UNCHANGED <<session, lastAuthEvent, db, users, response, points, fwd, bwd, listing>>

\* GET /community/alerts/: CommunityAlertListView.  The queryset has no
\* ordering when the loop iterates it, so the store delivers the candidate
\* rows in some order scan; scanned is that order when the loop ran.
ListAlerts(request) ==
    /\ response = NoResponse
    /\ \E scan \in ScanOrders(alerts, users, request) :
          response' = The({ [view     |-> "alert-list",
                             request  |-> request,
                             scanned  |-> q.scanned,
                             filtered |-> q.filtered,
                             result   |-> q.result] :
                            q \in {get_queryset(alerts, users, request,
                                                scan)} })
    /\ UNCHANGED <<session, lastAuthEvent, db, users, alerts, clock, points, fwd, bwd, listing>>

\* the client has received the response
Deliver ==
    /\ response # NoResponse
    /\ response' = NoResponse
    /\ UNCHANGED <<session, lastAuthEvent, db, users, alerts, clock, points, fwd, bwd, listing>>

Init ==
    /\ users = InitUsers
    /\ alerts = <<>>
    /\ clock = 1
    /\ response = NoResponse
    /\ points = None
    /\ fwd = None
    /\ bwd = None
    /\ session = None
    /\ lastAuthEvent = "none"
    /\ db = EmptyDb
    /\ listing = None

Next ==
    \/ \E u \in Posters, kind \in PostedKinds, pos \in AlertPositions :
          ObjectsCreate(u, kind, pos)
    \/ \E request \in Requests : ListAlerts(request)
    \/ Deliver

Spec == Init /\ [][Next]_vars

(***************************************************************************)
(* The distance on its own: two points A and B, the distance from A to B   *)
(* and the distance from B to A.                                           *)
(***************************************************************************)
Forward ==
    /\ points # None /\ fwd = None
    /\ fwd' = Some(DistanceBetween[Val(points).a, Val(points).b])
    /\ UNCHANGED <<session, lastAuthEvent, db, users, alerts, clock, response, points, bwd, listing>>

Backward ==
    /\ points # None /\ bwd = None
    /\ bwd' = Some(DistanceBetween[Val(points).b, Val(points).a])
    /\ UNCHANGED <<session, lastAuthEvent, db, users, alerts, clock, response, points, fwd, listing>>

InitDist ==
    /\ users = InitUsers
    /\ alerts = <<>>
    /\ clock = 1
    /\ response = NoResponse
    /\ points \in {Some(p) : p \in [a : Coordinates, b : Coordinates]}
    /\ fwd = None
    /\ bwd = None
    /\ session = None
    /\ lastAuthEvent = "none"
    /\ db = EmptyDb
    /\ listing = None

NextDist == Forward \/ Backward

SpecDist == InitDist /\ [][NextDist]_vars

(***************************************************************************)
(* Submitted texts and Django's form fields                                *)
(***************************************************************************)
\* the characters of submitted texts
TextChars == Chars \cup {" "}

\* str.lstrip() and str.rstrip() for blanks
LStrip[s \in Seq(TextChars)] ==
    IF s # <<>> /\ s[1] = " " THEN LStrip[Tail(s)] ELSE s

RStrip[s \in Seq(TextChars)] ==
    IF s # <<>> /\ s[Len(s)] = " "
    THEN RStrip[SubSeq(s, 1, Len(s) - 1)]
    ELSE s

\* str.strip()
Strip[s \in Seq(TextChars)] == RStrip[LStrip[s]]

\* a POST parameter that was not sent reads as the empty text in a form
Sent(p) == IF p = None THEN <<>> ELSE Val(p)

\* forms.CharField.clean: the text is stripped and must not be empty
CleanChar(p) ==
    IF Strip[Sent(p)] = <<>> THEN Raise("required")
                             ELSE Return(Strip[Sent(p)])

\* Decimal(text) of a whole number: blanks around it are dropped, a sign
\* may precede the digits; anything else raises InvalidOperation
InvalidOperation == "InvalidOperation"

ToDecimal[s \in Seq(TextChars)] ==
    IF Unsigned(Strip[s]) # <<>> /\ AllDigits(Unsigned(Strip[s]))
    THEN Return(SignOf(Strip[s]) * IntOfDigits[Unsigned(Strip[s])])
    ELSE Raise(InvalidOperation)

\* forms.DecimalField.clean of a required field
CleanDecimal(p) ==
    IF Strip[Sent(p)] = <<>> THEN Raise("required")
    ELSE IF ToDecimal[Sent(p)].exc # None THEN Raise("invalid")
    ELSE Return(ToDecimal[Sent(p)].val)

\* forms.ChoiceField.clean of alert_type (a string, "" when empty)
CleanChoice(p) ==
    IF p = None \/ Val(p) = "" THEN Raise("required")
    ELSE IF Val(p) \notin ALERT_TYPES THEN Raise("invalid_choice")
    ELSE Return(Val(p))

\* the names of the fields of a cleaned form that have an error
FormErrors(cleaned) == {f \in DOMAIN cleaned : cleaned[f].exc # None}

\* LoginRequiredMixin / login_required: the response to an anonymous
\* requester
RedirectToLogin(view, request) ==
    [view |-> view, request |-> request, user |-> None, status |-> 302,
     to |-> "login", messages |-> <<>>, errors |-> {}]

(***************************************************************************)
(* CommunityAlertCreateView and CommunityAlertUpdateView                   *)
(***************************************************************************)
\* the ModelForm of the create view over the fields of the model (title,
\* description and the optional fields behave as location and are left
\* out): every field shown is required
CreateFormClean(post) ==
    [alert_type   |-> CleanChoice(post.alert_type),
     location     |-> CleanChar(post.location),
     latitude     |-> CleanDecimal(post.latitude),
     longitude    |-> CleanDecimal(post.longitude),
     contact_info |-> CleanChar(post.contact_info)]

\* CommunityAlertCreateView.form_valid on the cleaned data of a valid form:
\* the message, and whether the alert is saved
CreateFormValid(cleaned_data) ==
    IF cleaned_data.contact_info = <<>>
          \/ Strip[cleaned_data.contact_info] = <<>>
    THEN [saved |-> FALSE, message |-> "Contact information is required."]
    ELSE IF cleaned_data.location = <<>>
               \/ Strip[cleaned_data.location] = <<>>
    THEN [saved |-> FALSE, message |-> "Location is required."]
    ELSE [saved |-> TRUE, message |-> "Alert posted successfully!"]

\* POST /community/alerts/create/ by user (None when anonymous) at time
\* now: the table afterwards and the response
PostAlertView(store, user, post, now) ==
    IF user = None
    THEN [alerts |-> store, response |-> RedirectToLogin("alert-create", post)]
    ELSE The({
        IF FormErrors(form) # {}
        THEN [alerts   |-> store,
              response |-> [view |-> "alert-create", request |-> post,
                            user |-> user, status |-> 200, to |-> "",
                            messages |-> <<>>, errors |-> FormErrors(form)]]
        ELSE The({
            IF done.saved
            THEN [alerts |-> Append(store,
                                [user         |-> Val(user),
                                 alert_type   |-> form.alert_type.val,
                                 location     |-> form.location.val,
                                 contact_info |-> form.contact_info.val,
                                 latitude     |-> Some(form.latitude.val),
                                 longitude    |-> Some(form.longitude.val),
                                 is_active    |-> TRUE,
                                 created_at   |-> now]),
                  response |-> [view |-> "alert-create", request |-> post,
                                user |-> user, status |-> 302,
                                to |-> "alert-list",
                                messages |-> <<done.message>>, errors |-> {}]]
            ELSE [alerts   |-> store,
                  response |-> [view |-> "alert-create", request |-> post,
                                user |-> user, status |-> 200, to |-> "",
                                messages |-> <<done.message>>, errors |-> {}]] :
            done \in {CreateFormValid([f \in DOMAIN form |-> form[f].val])} }) :
        form \in {CreateFormClean(post)} })

\* the ModelForm of the update view: location, latitude, longitude and
\* contact_info are required, is_active is a checkbox
UpdateFormClean(post) ==
    [location     |-> CleanChar(post.location),
     latitude     |-> CleanDecimal(post.latitude),
     longitude    |-> CleanDecimal(post.longitude),
     contact_info |-> CleanChar(post.contact_info)]

\* test_func that lets every authenticated user pass
test_func_Always(user, alert) == TRUE

\* CommunityAlertUpdateView.test_func: the requester is the alert's user
test_func(user, alert) == Val(user) = alert.user

\* POST /community/alerts/<pk>/update/ by user (None when anonymous): the
\* table afterwards and the response
UpdateAlertView(store, user, pk, post) ==
    IF user = None
    THEN [alerts |-> store, response |-> RedirectToLogin("alert-update", [pk |-> pk, form |-> post])]
    ELSE IF pk \notin 1..Len(store)
    THEN [alerts   |-> store,
          response |-> [view |-> "alert-update", request |-> [pk |-> pk, form |-> post],
                        user |-> user, status |-> 404, to |-> "",
                        messages |-> <<>>, errors |-> {}]]
    ELSE IF ~test_func(user, store[pk])
    THEN [alerts   |-> store,
          response |-> [view |-> "alert-update", request |-> [pk |-> pk, form |-> post],
                        user |-> user, status |-> 403, to |-> "",
                        messages |-> <<>>, errors |-> {}]]
    ELSE The({
        IF FormErrors(form) # {}
        THEN [alerts   |-> store,
              response |-> [view |-> "alert-update", request |-> [pk |-> pk, form |-> post],
                            user |-> user, status |-> 200, to |-> "",
                            messages |-> <<>>, errors |-> FormErrors(form)]]
        ELSE [alerts   |-> [store EXCEPT ![pk] =
                               [@ EXCEPT !.location     = form.location.val,
                                         !.contact_info = form.contact_info.val,
                                         !.latitude  = Some(form.latitude.val),
                                         !.longitude = Some(form.longitude.val),
                                         !.is_active = post.is_active]],
              response |-> [view |-> "alert-update", request |-> [pk |-> pk, form |-> post],
                            user |-> user, status |-> 302,
                            to |-> "alert-detail",
                            messages |-> <<"Alert updated successfully!">>,
                            errors |-> {}]] :
        form \in {UpdateFormClean(post)} })

\* the texts submitted for contact_info and location: not sent, empty,
\* blanks only, and a text between blanks
SubmittedTexts ==
    {None, Some(<<>>), Some(<<" ", " ">>), Some(<<" ", "5", "5", "5">>)}

\* the forms posted to the create view
CreatePosts ==
    [alert_type   : {Some("LOST"), Some("")},
     location     : {Some(<<>>), Some(<<" ", " ">>), Some(<<"i", "n", "n">>)},
     latitude     : {Some(<<"1", "2">>), Some(<<"a", "b", "c">>), None},
     longitude    : {Some(<<"2", "0">>)},
     contact_info : SubmittedTexts]

\* the forms posted to the update view
UpdatePosts ==
    [location     : {Some(<<" ", " ">>), Some(<<"i", "n", "n">>)},
     latitude     : {Some(<<"1", "2">>), Some(<<"0">>), Some(<<"a", "b", "c">>)},
     longitude    : {Some(<<"2", "0">>)},
     contact_info : {Some(<<>>), Some(<<"5", "5", "5">>)},
     is_active    : BOOLEAN]

\* the users of the test client
Clients == {"u1", "u2"}

\* self.client.login(...) and self.client.logout() of the tests
ClientLogin(u) ==
    /\ response = NoResponse
    /\ session # Some(u)
    /\ session' = Some(u)
    /\ UNCHANGED <<users, alerts, clock, response, points, fwd, bwd,
                   lastAuthEvent, db, listing>>

ClientLogout ==
    /\ response = NoResponse
    /\ session # None
    /\ session' = None
    /\ UNCHANGED <<users, alerts, clock, response, points, fwd, bwd,
                   lastAuthEvent, db, listing>>

\* POST /community/alerts/create/
PostAlert(post) ==
    /\ response = NoResponse
    /\ Len(alerts) < MaxAlerts
    /\ \E out \in {PostAlertView(alerts, session, post, clock)} :
          /\ alerts' = out.alerts
          /\ response' = out.response
          /\ clock' = IF out.alerts # alerts THEN clock + 1 ELSE clock
    /\ UNCHANGED <<users, points, fwd, bwd, session, lastAuthEvent, db, listing>>

\* POST /community/alerts/<pk>/update/
UpdateAlert(pk, post) ==
    /\ response = NoResponse
    /\ \E out \in {UpdateAlertView(alerts, session, pk, post)} :
          /\ alerts' = out.alerts
          /\ response' = out.response
    /\ UNCHANGED <<users, clock, points, fwd, bwd, session, lastAuthEvent, db, listing>>

NextAlerts ==
    \/ \E u \in Clients : ClientLogin(u)
    \/ ClientLogout
    \/ \E post \in CreatePosts : PostAlert(post)
    \/ \E pk \in 1..MaxAlerts, post \in UpdatePosts : UpdateAlert(pk, post)
    \/ Deliver

SpecAlerts == Init /\ [][NextAlerts]_vars

(***************************************************************************)
(* users/views.py: register                                                *)
(***************************************************************************)
\* bool(x) of an optional name, email or password: None and '' are falsy
TruthyName(p) == p # None /\ Val(p) # ""

\* BaseUserManager.normalize_email, called by create_user: the domain part
\* is lowercased
NormalizeEmail(email) == IF email = "new@X.COM" THEN "new@x.com" ELSE email

\* saving a row: the column DecimalField(max_digits=9, decimal_places=6)
\* holds at most three digits before the point, and an optional Decimal it
\* cannot hold raises InvalidOperation in the database layer
Storable_Nothing(d) == d = None

Storable(d) == d = None \/ Abs[Val(d)] < 1000

\* the text "Location not specified"
LocationNotSpecified == <<"n", "a">>

\* User.objects.create_user(...): the table with the new row, or the
\* exception raised
create_user(table, username, row) ==
    IF Storable(row.latitude) /\ Storable(row.longitude)
    THEN Return(
        [u \in DOMAIN table \cup {username} |->
            IF u = username
            THEN [row EXCEPT !.email = NormalizeEmail(row.email)]
            ELSE table[u]])
    ELSE Raise(InvalidOperation)

\* lines 45-75: the location, latitude and longitude to store and the
\* message, from the submitted ones, the IP lookup and the reverse geocoder
RegisterLocation(post, ip_location, reversed) ==
    IF TruthyString(post.latitude) /\ TruthyString(post.longitude)
    THEN IF ToDecimal[Val(post.latitude)].exc # None
              \/ ToDecimal[Val(post.longitude)].exc # None
         THEN [location  |-> Val(post.location),
               latitude  |-> None,
               longitude |-> None,
               messages  |-> <<"Invalid location coordinates. You can update your location later.">>]
         ELSE [location  |-> IF Strip[Val(post.location)] = <<>>
                             THEN IF TruthyString(reversed)
                                  THEN Val(reversed)
                                  ELSE LocationNotSpecified
                             ELSE Val(post.location),
               latitude  |-> Some(ToDecimal[Val(post.latitude)].val),
               longitude |-> Some(ToDecimal[Val(post.longitude)].val),
               messages  |-> <<>>]
    ELSE IF ip_location # None
         THEN [location  |-> IF Strip[Val(post.location)] = <<>>
                             THEN Val(ip_location).location
                             ELSE Val(post.location),
               latitude  |-> Some(Val(ip_location).latitude),
               longitude |-> Some(Val(ip_location).longitude),
               messages  |-> <<"Location detected from IP">>]
         ELSE [location  |-> Val(post.location),
               latitude  |-> None,
               longitude |-> None,
               messages  |-> <<"Could not detect your location automatically. You can update it later in your profile.">>]

\* line 39, User.objects.filter(email=email).exists()
EmailRegistered_Never(table, email) == FALSE

EmailRegistered(table, email) == \E u \in DOMAIN table : table[u].email = email

\* a response of register
RegisterResponse(post, user, status, to, messages) ==
    [view |-> "register", request |-> post, user |-> user, status |-> status,
     to |-> to, messages |-> messages, errors |-> {}]

\* register(request): the user table and the session afterwards, and the
\* response; sess is the session before
register(table, sess, post, ip_location, reversed) ==
    IF post.method # "POST"
    THEN [users |-> table, session |-> sess,
          response |-> RegisterResponse(post, sess, 200, "", <<>>)]
    ELSE IF ~(/\ TruthyName(post.username) /\ TruthyName(post.email)
              /\ TruthyName(post.password) /\ TruthyName(post.profile_name)
              /\ TruthyString(post.location))
    THEN [users |-> table, session |-> sess,
          response |-> RegisterResponse(post, sess, 200, "",
                          <<"Please fill in all required fields.">>)]
    ELSE IF Val(post.username) \in DOMAIN table
    THEN [users |-> table, session |-> sess,
          response |-> RegisterResponse(post, sess, 200, "",
                          <<"Username already taken. Please choose another.">>)]
    ELSE IF EmailRegistered(table, Val(post.email))
    THEN [users |-> table, session |-> sess,
          response |-> RegisterResponse(post, sess, 200, "",
                          <<"Email already registered. Please login instead.">>)]
    ELSE The({
        The({
            IF created.exc # None
            THEN [users |-> table, session |-> sess,
                  response |-> RegisterResponse(post, sess, 200, "",
                                  loc.messages \o <<"Error creating account">>)]
            ELSE [users |-> created.val,
                  session |-> Some(Val(post.username)),
                  response |-> RegisterResponse(post,
                                  Some(Val(post.username)), 302, "home",
                                  loc.messages \o <<"Welcome to Pet Next Door">>)] :
            created \in {create_user(table, Val(post.username),
                            [email        |-> Val(post.email),
                             password     |-> Val(post.password),
                             profile_name |-> Val(post.profile_name),
                             phone_number |-> post.phone_number,
                             bio          |-> post.bio,
                             location     |-> loc.location,
                             latitude     |-> loc.latitude,
                             longitude    |-> loc.longitude])} }) :
        loc \in {RegisterLocation(post, ip_location, reversed)} })

\* who registers: a complete identity with a fresh username and email, the
\* same with the domain of the email in capitals, one with each required
\* field missing or empty, one with a taken username, one with a taken
\* email
Identities ==
    LET id(u, e, p, n) ==
            [username |-> u, email |-> e, password |-> p, profile_name |-> n]
    IN  { id(Some("u4"), Some("new@x.com"), Some("pw4"), Some("Four")),
          id(Some("u5"), Some("new@X.COM"), Some("pw5"), Some("Five")),
          id(None,       Some("new@x.com"), Some("pw4"), Some("Four")),
          id(Some("u4"), Some(""),          Some("pw4"), Some("Four")),
          id(Some("u4"), Some("new@x.com"), None,        Some("Four")),
          id(Some("u4"), Some("new@x.com"), Some("pw4"), Some("")),
          id(Some("u1"), Some("new@x.com"), Some("pw4"), Some("Four")),
          id(Some("u4"), Some("u1@x.com"),  Some("pw4"), Some("Four")) }

\* the location and the coordinates submitted with a registration
Places ==
    [location  : {None, Some(<<" ", " ">>), Some(<<"i", "n", "n">>)},
     latitude  : {None, Some(<<"1", "2">>), Some(<<"0">>),
                  Some(<<"a", "b", "c">>), Some(<<"1", "0", "0", "0">>)},
     longitude : {None, Some(<<"2", "0">>)}]

\* the requests to register
RegisterPosts ==
    {[method       |-> "POST",
      username     |-> i.username,
      email        |-> i.email,
      password     |-> i.password,
      profile_name |-> i.profile_name,
      phone_number |-> "",
      bio          |-> "",
      location     |-> p.location,
      latitude     |-> p.latitude,
      longitude    |-> p.longitude] : i \in Identities, p \in Places}

RegisterGet ==
    [method |-> "GET", username |-> None, email |-> None, password |-> None,
     profile_name |-> None, phone_number |-> "", bio |-> "",
     location |-> None, latitude |-> None, longitude |-> None]

\* what get_location_from_ip can answer: nothing, or a place
IpLocations ==
    {None, Some([latitude |-> 20, longitude |-> 20,
                 location |-> <<"c", "a", "b", "i", "n">>])}

\* what reverse_geocode can answer: nothing, or an address
ReverseGeocodes == {None, Some(<<"c", "a", "b", "i", "n">>)}

\* GET or POST /register/
Register(post, ip_location, reversed) ==
    /\ response = NoResponse
    /\ \E out \in {register(users, session, post, ip_location, reversed)} :
          /\ users' = out.users
          /\ session' = out.session
          /\ response' = out.response
          /\ lastAuthEvent' = IF out.response.status = 302
                               THEN "login" ELSE lastAuthEvent
    /\ UNCHANGED <<alerts, clock, points, fwd, bwd, db, listing>>

NextRegister ==
    \/ \E post \in RegisterPosts \cup {RegisterGet},
          ip_location \in IpLocations, reversed \in ReverseGeocodes :
          Register(post, ip_location, reversed)
    \/ Deliver

SpecRegister == Init /\ [][NextRegister]_vars

(***************************************************************************)
(* users/views.py: login_view, logout_view, profile, edit_profile          *)
(***************************************************************************)
\* a response of one of the views of users/views.py
UserResponse(view, request, user, status, to, messages) ==
    [view |-> view, request |-> request, user |-> user, status |-> status,
     to |-> to, messages |-> messages, errors |-> {}]

\* django.contrib.auth.authenticate: the user with that username and that
\* password, or None
authenticate_AnyPassword(table, username, password) ==
    IF username # None /\ Val(username) \in DOMAIN table
    THEN username ELSE None

authenticate(table, username, password) ==
    IF /\ username # None /\ password # None
       /\ Val(username) \in DOMAIN table
       /\ table[Val(username)].password = Val(password)
    THEN username
    ELSE None

\* login_view(request): the session afterwards and the response
login_view(table, sess, post) ==
    IF post.method = "POST"
    THEN The({
        IF user # None
        THEN [session  |-> user,
              response |-> UserResponse("login", post, user, 302, "home",
                              <<"Welcome back">>)]
        ELSE [session  |-> sess,
              response |-> UserResponse("login", post, sess, 200, "",
                              <<"Invalid username or password.">>)] :
        user \in {authenticate(table, post.username, post.password)} })
    ELSE [session  |-> sess,
          response |-> UserResponse("login", post, sess, 200, "", <<>>)]

\* logout_view(request)
logout_view(sess, request) ==
    [session  |-> None,
     response |-> UserResponse("logout", request, None, 302, "home",
                     <<"You have been logged out.">>)]

\* profile(request), behind login_required
profile(sess, request) ==
    IF sess = None
    THEN RedirectToLogin("profile", request)
    ELSE UserResponse("profile", request, sess, 200, "", <<>>)

\* line 159, if not profile_name
ProfileNameGiven_NotNone(p) == p # None

ProfileNameGiven(p) == TruthyName(p)

ValidationError == "ValidationError"

\* lines 165-197 of edit_profile: what is assigned to user.location,
\* user.latitude and user.longitude (None: the attribute is left alone),
\* whether the view returned early, the messages, or the exception raised;
\* geocoded and reversed are the answers of geocode and reverse_geocode.
\* A text left in latitude or longitude is converted by the field when the
\* row is saved.
EditLocation(post, geocoded, reversed) ==
    IF post.use_manual_address /\ TruthyString(post.location)
    THEN IF geocoded # None
         THEN Return(
             [returned  |-> FALSE,
              location  |-> IF Val(geocoded).display_name # <<>>
                            THEN Some(Val(geocoded).display_name) ELSE None,
              latitude  |-> IF TruthyDecimal(Some(Val(geocoded).latitude))
                            THEN Some(Val(geocoded).latitude) ELSE None,
              longitude |-> IF TruthyDecimal(Some(Val(geocoded).longitude))
                            THEN Some(Val(geocoded).longitude) ELSE None,
              messages  |-> <<"Address found">>])
         ELSE Return(
             [returned  |-> TRUE, location |-> None, latitude |-> None,
              longitude |-> None,
              messages  |-> <<"Could not find that address. Please try a different format.">>])
    ELSE IF TruthyString(post.latitude) /\ TruthyString(post.longitude)
    THEN IF ToDecimal[Val(post.latitude)].exc # None
              \/ ToDecimal[Val(post.longitude)].exc # None
         THEN Raise(InvalidOperation)
         ELSE Return(
             [returned  |-> FALSE,
              location  |-> IF Strip[Sent(post.location)] = <<>>
                            THEN IF TruthyString(reversed)
                                 THEN reversed
                                 ELSE Some(LocationNotSpecified)
                            ELSE post.location,
              latitude  |-> IF TruthyDecimal(Some(ToDecimal[Val(post.latitude)].val))
                            THEN Some(ToDecimal[Val(post.latitude)].val)
                            ELSE None,
              longitude |-> IF TruthyDecimal(Some(ToDecimal[Val(post.longitude)].val))
                            THEN Some(ToDecimal[Val(post.longitude)].val)
                            ELSE None,
              messages  |-> <<>>])
    ELSE IF \/ TruthyString(post.latitude)
               /\ ToDecimal[Val(post.latitude)].exc # None
            \/ TruthyString(post.longitude)
               /\ ToDecimal[Val(post.longitude)].exc # None
    THEN Raise(ValidationError)
    ELSE Return(
        [returned  |-> FALSE,
         location  |-> IF TruthyString(post.location)
                       THEN post.location ELSE None,
         latitude  |-> IF TruthyString(post.latitude)
                       THEN Some(ToDecimal[Val(post.latitude)].val) ELSE None,
         longitude |-> IF TruthyString(post.longitude)
                       THEN Some(ToDecimal[Val(post.longitude)].val) ELSE None,
         messages  |-> <<>>])

\* user.save(): the table with the row, or the exception of a Decimal the
\* column cannot hold
save(table, username, row) ==
    IF Storable(row.latitude) /\ Storable(row.longitude)
    THEN Return([table EXCEPT ![username] = row])
    ELSE Raise(InvalidOperation)

\* lines 188-197: the attributes of the user after the assignments
Assigned(user, post, loc) ==
    [user EXCEPT
        !.profile_name = Val(post.profile_name),
        !.phone_number = post.phone_number,
        !.bio          = post.bio,
        !.location     = IF loc.location # None THEN Val(loc.location) ELSE @,
        !.latitude     = IF loc.latitude # None THEN loc.latitude ELSE @,
        !.longitude    = IF loc.longitude # None THEN loc.longitude ELSE @]

\* edit_profile(request), behind login_required: the user table afterwards
\* and the response
edit_profile(table, sess, post, geocoded, reversed) ==
    IF sess = None
    THEN [users |-> table, response |-> RedirectToLogin("edit_profile", post)]
    ELSE IF post.method # "POST"
    THEN [users |-> table,
          response |-> UserResponse("edit_profile", post, sess, 200, "", <<>>)]
    ELSE IF ~ProfileNameGiven(post.profile_name)
    THEN [users |-> table,
          response |-> UserResponse("edit_profile", post, sess, 200, "",
                          <<"Profile name is required.">>)]
    ELSE The({
        IF loc.exc = Some(InvalidOperation)
        THEN [users |-> table,
              response |-> UserResponse("edit_profile", post, sess, 200, "",
                              <<"Invalid location data">>)]
        ELSE IF loc.exc # None
        THEN [users |-> table,
              response |-> UserResponse("edit_profile", post, sess, 200, "",
                              <<"Error updating profile">>)]
        ELSE IF loc.val.returned
        THEN [users |-> table,
              response |-> UserResponse("edit_profile", post, sess, 200, "",
                              loc.val.messages)]
        ELSE The({
            IF saved.exc # None
            THEN [users |-> table,
                  response |-> UserResponse("edit_profile", post, sess, 200,
                                  "", loc.val.messages
                                        \o <<"Invalid location data">>)]
            ELSE [users |-> saved.val,
                  response |-> UserResponse("edit_profile", post, sess, 302,
                                  "profile", loc.val.messages
                                        \o <<"Profile updated successfully!">>)] :
            saved \in {save(table, Val(sess),
                            Assigned(table[Val(sess)], post, loc.val))} }) :
        loc \in {EditLocation(post, geocoded, reversed)} })

\* the credentials submitted to login: right ones, a wrong password, an
\* unknown username, nothing
Credentials ==
    {[method |-> "POST", username |-> Some("u1"), password |-> Some("pw1")],
     [method |-> "POST", username |-> Some("u1"), password |-> Some("pw2")],
     [method |-> "POST", username |-> Some("u9"), password |-> Some("pw1")],
     [method |-> "POST", username |-> None,       password |-> None],
     [method |-> "GET",  username |-> None,       password |-> None]}

\* a request without a form
Get == [method |-> "GET"]

\* the forms submitted to edit_profile
EditPosts ==
    [method             : {"POST"},
     profile_name       : {None, Some(""), Some("New")},
     phone_number       : {"555"},
     bio                : {""},
     location           : {None, Some(<<" ">>), Some(<<"i", "n", "n">>)},
     latitude           : {None, Some(<<"0">>), Some(<<"a", "b", "c">>),
                           Some(<<"1", "0", "0", "0">>)},
     longitude          : {None, Some(<<"2", "0">>)},
     use_manual_address : BOOLEAN]

\* what geocode can answer: nothing, a place, a place on the equator, a
\* place without a display name
Geocodes ==
    {None,
     Some([latitude |-> 5, longitude |-> 7,
           display_name |-> <<"b", "a", "n", "c">>]),
     Some([latitude |-> 0, longitude |-> 7,
           display_name |-> <<"i", "n", "n">>]),
     Some([latitude |-> 12, longitude |-> 20, display_name |-> <<>>])}

\* POST or GET /login/
Login(post) ==
    /\ response = NoResponse
    /\ \E out \in {login_view(users, session, post)} :
          /\ session' = out.session
          /\ response' = out.response
          /\ lastAuthEvent' = IF out.response.status = 302
                               THEN "login" ELSE lastAuthEvent
    /\ UNCHANGED <<users, alerts, clock, points, fwd, bwd, db, listing>>

\* /logout/
Logout ==
    /\ response = NoResponse
    /\ \E out \in {logout_view(session, Get)} :
          /\ session' = out.session
          /\ response' = out.response
    /\ lastAuthEvent' = "logout"
    /\ UNCHANGED <<users, alerts, clock, points, fwd, bwd, db, listing>>

\* GET /profile/
Profile ==
    /\ response = NoResponse
    /\ response' = profile(session, Get)
    /\ UNCHANGED <<session, lastAuthEvent, users, alerts, clock, points,
                   fwd, bwd, db, listing>>

\* GET /profile/edit/
EditProfileGet ==
    /\ response = NoResponse
    /\ response' = edit_profile(users, session, Get, None, None).response
    /\ UNCHANGED <<session, lastAuthEvent, users, alerts, clock, points,
                   fwd, bwd, db, listing>>

\* POST /profile/edit/
EditProfile(post, geocoded, reversed) ==
    /\ response = NoResponse
    /\ \E out \in {edit_profile(users, session, post, geocoded, reversed)} :
          /\ users' = out.users
          /\ response' = out.response
    /\ UNCHANGED <<session, lastAuthEvent, alerts, clock, points, fwd, bwd,
                   db, listing>>

NextProfile ==
    \/ \E post \in Credentials : Login(post)
    \/ Logout
    \/ Profile
    \/ EditProfileGet
    \/ \E post \in EditPosts, geocoded \in Geocodes,
          reversed \in ReverseGeocodes :
          EditProfile(post, geocoded, reversed)
    \/ Deliver

SpecProfile == Init /\ [][NextProfile]_vars

(***************************************************************************)
(* The models of users, pets, playdates and messaging and their foreign    *)
(* keys.  A row is a record of its primary key and its foreign keys; the   *)
(* rows that only point at a pet (photos, traits, adoption posts) or at a  *)
(* user (posts, comments, alerts) are deleted with it and referenced by    *)
(* nothing, and are left out.                                              *)
(***************************************************************************)
\* at most MaxRows rows are ever inserted into the tables
MaxRows == 6

\* the number of rows inserted so far
Inserted(d) ==
    (d.next.users - 1) + (d.next.pets - 1) + (d.next.playdates - 1)
        + (d.next.threads - 1) + (d.next.messages - 1)

\* the primary keys of the rows of a table
Ids(rows) == {r.id : r \in rows}

IntegrityError == "IntegrityError"

\* Meta.unique_together = ['user1', 'user2'] of MessageThread: no row has
\* this pair
UniqueTogether_Unchecked(threads, user1, user2) == TRUE

UniqueTogether(threads, user1, user2) ==
    ~\E t \in threads : t.user1 = user1 /\ t.user2 = user2

\* Model.objects.create: the store with the row under the next primary key
\* of the table
Insert(d, table, row) ==
    [d EXCEPT ![table] = @ \cup {[row EXCEPT !.id = d.next[table]]},
              !.next[table] = @ + 1]

\* MessageThread.objects.create(user1=..., user2=..., playdate=...)
create_thread(d, user1, user2, playdate) ==
    IF UniqueTogether(d.threads, user1, user2)
    THEN Return(Insert(d, "threads", [id |-> 0, user1 |-> user1,
                                     user2 |-> user2, playdate |-> playdate]))
    ELSE Raise(IntegrityError)

\* on_delete of MessageThread.playdate, for a thread that is kept when the
\* playdates gone are deleted
DO_NOTHING(thread, gone) == thread

SET_NULL(thread, gone) ==
    IF thread.playdate # None /\ Val(thread.playdate) \in gone
    THEN [thread EXCEPT !.playdate = None]
    ELSE thread

\* Model.delete(): the store after the rows with the given primary keys
\* and, following the CASCADE keys (PetProfile.owner, Playdate.pet,
\* Playdate.organizer, MessageThread.user1 and user2, Message.thread and
\* sender), every row that references a deleted one are deleted
Collect(d, U, P0, PD0, T0, M0) ==
    LET P  == {p \in d.pets : p.id \in P0 \/ p.owner \in U}
        PD == {x \in d.playdates :
                  x.id \in PD0 \/ x.organizer \in U \/ x.pet \in Ids(P)}
        T  == {t \in d.threads :
                  t.id \in T0 \/ t.user1 \in U \/ t.user2 \in U}
        M  == {m \in d.messages :
                  m.id \in M0 \/ m.sender \in U \/ m.thread \in Ids(T)}
    IN  [d EXCEPT !.users     = {u \in @ : u.id \notin U},
                  !.pets      = @ \ P,
                  !.playdates = @ \ PD,
                  !.threads   = {SET_NULL(t, Ids(PD)) : t \in @ \ T},
                  !.messages  = @ \ M]

\* the answer of an operation on the store: the exception raised, if any,
\* and the threads whose playdate was cleared
StoreResponse(view, request, exc, cleared) ==
    [view |-> view, request |-> request, exc |-> exc, cleared |-> cleared]

\* User.objects.create_user(...)
CreateUser ==
    /\ response = NoResponse
    /\ Inserted(db) < MaxRows
    /\ db' = Insert(db, "users", [id |-> 0])
    /\ UNCHANGED <<session, lastAuthEvent, users, alerts, clock, response,
                   points, fwd, bwd, listing>>

\* PetProfile.objects.create(owner=...)
CreatePet(owner) ==
    /\ response = NoResponse
    /\ Inserted(db) < MaxRows
    /\ owner \in Ids(db.users)
    /\ db' = Insert(db, "pets", [id |-> 0, owner |-> owner])
    /\ UNCHANGED <<session, lastAuthEvent, users, alerts, clock, response,
                   points, fwd, bwd, listing>>

\* Playdate.objects.create(pet=..., organizer=...)
CreatePlaydate(pet, organizer) ==
    /\ response = NoResponse
    /\ Inserted(db) < MaxRows
    /\ pet \in Ids(db.pets)
    /\ organizer \in Ids(db.users)
    /\ db' = Insert(db, "playdates",
                    [id |-> 0, pet |-> pet, organizer |-> organizer])
    /\ UNCHANGED <<session, lastAuthEvent, users, alerts, clock, response,
                   points, fwd, bwd, listing>>

\* MessageThread.objects.create(user1=..., user2=..., playdate=...)
CreateThread(user1, user2, playdate) ==
    /\ response = NoResponse
    /\ Inserted(db) < MaxRows
    /\ {user1, user2} \subseteq Ids(db.users)
    /\ playdate # None => Val(playdate) \in Ids(db.playdates)
    /\ \E out \in {create_thread(db, user1, user2, playdate)} :
          /\ db' = IF out.exc = None THEN out.val ELSE db
          /\ response' = StoreResponse("create_thread",
                             [user1 |-> user1, user2 |-> user2],
                             out.exc, {})
    /\ UNCHANGED <<session, lastAuthEvent, users, alerts, clock, points,
                   fwd, bwd, listing>>

\* Message.objects.create(thread=..., sender=...)
CreateMessage(thread, sender) ==
    /\ response = NoResponse
    /\ Inserted(db) < MaxRows
    /\ thread \in Ids(db.threads)
    /\ sender \in Ids(db.users)
    /\ db' = Insert(db, "messages",
                    [id |-> 0, thread |-> thread, sender |-> sender])
    /\ UNCHANGED <<session, lastAuthEvent, users, alerts, clock, response,
                   points, fwd, bwd, listing>>

\* row.delete() of the row id of a table
Delete(table, id) ==
    /\ response = NoResponse
    /\ id \in Ids(db[table])
    /\ db' = Collect(db,
                     IF table = "users" THEN {id} ELSE {},
                     IF table = "pets" THEN {id} ELSE {},
                     IF table = "playdates" THEN {id} ELSE {},
                     IF table = "threads" THEN {id} ELSE {},
                     IF table = "messages" THEN {id} ELSE {})
    /\ response' = StoreResponse("delete", [table |-> table], None,
                       {t.id : t \in {t \in db'.threads : t \notin db.threads}})
    /\ UNCHANGED <<session, lastAuthEvent, users, alerts, clock, points,
                   fwd, bwd, listing>>

Tables == {"users", "pets", "playdates", "threads", "messages"}

NextStore ==
    \/ CreateUser
    \/ \E owner \in 1..MaxRows : CreatePet(owner)
    \/ \E pet, organizer \in 1..MaxRows : CreatePlaydate(pet, organizer)
    \/ \E user1, user2 \in 1..MaxRows,
          playdate \in {None} \cup {Some(i) : i \in 1..MaxRows} :
          CreateThread(user1, user2, playdate)
    \/ \E thread, sender \in 1..MaxRows : CreateMessage(thread, sender)
    \/ \E table \in Tables, id \in 1..MaxRows : Delete(table, id)
    \/ Deliver

SpecStore == Init /\ [][NextStore]_vars

(***************************************************************************)
(* Sending a message to a thread, POST /messaging/threads/<id>/send/.  The *)
(* view is specified by the tests of the messaging application: login      *)
(* required, the sender one of the thread's two participants, a text or a  *)
(* photo required.                                                         *)
(***************************************************************************)
\* the requester is user1 or user2 of the thread
IsParticipant_Anyone(thread, user) == TRUE

IsParticipant(thread, user) == user \in {thread.user1, thread.user2}

\* the send view: the store afterwards and the response; user is
\* request.user (None when anonymous)
send_message(d, user, pk, post) ==
    LET request == [thread |-> pk, form |-> post]
    IN  IF user = None
        THEN [db |-> d, response |-> RedirectToLogin("send_message", request)]
        ELSE IF pk \notin Ids(d.threads)
        THEN [db |-> d,
              response |-> UserResponse("send_message", request, user, 404,
                              "", <<>>)]
        ELSE IF ~IsParticipant(The({t \in d.threads : t.id = pk}), Val(user))
        THEN [db |-> d,
              response |-> UserResponse("send_message", request, user, 403,
                              "", <<>>)]
        ELSE IF Strip[post.text] = <<>> /\ ~post.photo
        THEN [db |-> d,
              response |-> UserResponse("send_message", request, user, 200,
                              "", <<"A message needs a text or a photo.">>)]
        ELSE [db |-> Insert(d, "messages",
                            [id |-> 0, thread |-> pk, sender |-> Val(user)]),
              response |-> UserResponse("send_message", request, user, 302,
                              "thread", <<>>)]

\* the forms posted to the send view
SendPosts == [text : {<<>>, <<"i", "n", "n">>}, photo : BOOLEAN]

\* POST /messaging/threads/<pk>/send/ by the user, or by nobody logged in
SendMessage(user, pk, post) ==
    /\ response = NoResponse
    /\ Inserted(db) < MaxRows
    /\ user # None => Val(user) \in Ids(db.users)
    /\ \E out \in {send_message(db, user, pk, post)} :
          /\ db' = out.db
          /\ response' = out.response
    /\ UNCHANGED <<session, lastAuthEvent, users, alerts, clock, points,
                   fwd, bwd, listing>>

NextMessaging ==
    \/ CreateUser
    \/ \E user1, user2 \in 1..MaxRows : CreateThread(user1, user2, None)
    \/ \E user \in {None} \cup {Some(i) : i \in 1..MaxRows},
          pk \in 1..MaxRows, post \in SendPosts :
          SendMessage(user, pk, post)
    \/ Deliver

SpecMessaging == Init /\ [][NextMessaging]_vars

(***************************************************************************)
(* The list view beside the update view.  get_queryset reads the table     *)
(* twice: the loop of line 93 evaluates the queryset of the candidates,    *)
(* and the queryset of line 102, filter(pk__in=nearby_alerts), is          *)
(* evaluated when the page is rendered.  No transaction spans the two      *)
(* reads, so a request of another client can be served between them.       *)
(* listing is the list request in flight: None, the queryset built by      *)
(* get_queryset, or the page made from it.                                 *)
(***************************************************************************)
\* lines 70-104 at the first read: the lazy queryset that get_queryset
\* returns, with the primary keys collected by the loop
ScannedQueryset(store, usrs, request, scan) ==
    The({ [phase    |-> "queryset",
           request  |-> request,
           filtered |-> q.filtered,
           pks      |-> IF q.filtered THEN q.pks ELSE {},
           rows     |-> <<>>] :
          q \in {RadiusFilter(store, usrs, request,
                              Candidates(store, request), scan)} })

\* the evaluation of the returned queryset at the second read: the type and
\* status filters and pk__in on the table as it is now, newest first, and
\* the rows as they are now
FetchedPage(store, queryset) ==
    The({ [queryset EXCEPT
              !.phase = "page",
              !.rows  = [i \in 1..Len(result) |-> store[result[i]]]] :
          result \in {OrderByCreatedDesc(store,
                         IF queryset.filtered
                         THEN Candidates(store, queryset.request)
                                \cap queryset.pks
                         ELSE Candidates(store, queryset.request))} })

\* the list requests sent beside updates: u1 asks for the alerts within
\* 893.2142 km, active or all
RadiusRequests ==
    {r \in Requests :
        /\ r.user = Some("u1")
        /\ r.type = None
        /\ r.radius = Some(<<"8", "9", "3", ".", "2", "1", "4", "2">>)}

\* the updates sent beside a list request: the position and the active flag
ConcurrentPosts ==
    {post \in UpdatePosts :
        /\ post.location = Some(<<"i", "n", "n">>)
        /\ post.contact_info = Some(<<"5", "5", "5">>)}

\* GET /community/alerts/, first read: get_queryset runs
ListScan(request) ==
    /\ listing = None
    /\ \E scan \in ScanOrders(alerts, users, request) :
          listing' = Some(ScannedQueryset(alerts, users, request, scan))
    /\ UNCHANGED <<users, alerts, clock, response, points, fwd, bwd,
                   session, lastAuthEvent, db>>

\* GET /community/alerts/, second read: the page is rendered
ListFetch ==
    /\ listing # None
    /\ Val(listing).phase = "queryset"
    /\ listing' = Some(FetchedPage(alerts, Val(listing)))
    /\ UNCHANGED <<users, alerts, clock, response, points, fwd, bwd,
                   session, lastAuthEvent, db>>

\* the requester has received the page
ListDeliver ==
    /\ listing # None
    /\ Val(listing).phase = "page"
    /\ listing' = None
    /\ UNCHANGED <<users, alerts, clock, response, points, fwd, bwd,
                   session, lastAuthEvent, db>>

NextConcurrent ==
    \/ \E pos \in {p \in AlertPositions : p.longitude = Some(20)} :
          ObjectsCreate("u1", [alert_type |-> "LOST", is_active |-> TRUE], pos)
    \/ ClientLogin("u1")
    \/ ClientLogout
    \/ \E pk \in 1..MaxAlerts, post \in ConcurrentPosts :
          UpdateAlert(pk, post)
    \/ Deliver
    \/ \E request \in RadiusRequests : ListScan(request)
    \/ ListFetch
    \/ ListDeliver

SpecConcurrent == Init /\ [][NextConcurrent]_vars

(***************************************************************************)
(* Properties of the alert list                                            *)
(***************************************************************************)
IsList == response.view = "alert-list"

\* the rows of the response, as a set
ResultSet == SeqToSet(response.result)

\* the candidates of the radius filter of the response
Cands == Candidates(alerts, response.request)

\* the parsed radius of the response (when float accepted it)
RadiusKm == float[Val(response.request.radius)].val

\* the requester's row (when the requester is authenticated)
Requester == users[Val(response.request.user)]

\* both coordinates of the alert are stored (possibly 0)
CoordinatesPresent(alert) == alert.latitude # None /\ alert.longitude # None

\* the distance from the requester to an alert with coordinates
DistanceTo(alert) ==
    DistanceBetween[[lat |-> Val(Requester.latitude),
                     lon |-> Val(Requester.longitude)],
                    [lat |-> Val(alert.latitude),
                     lon |-> Val(alert.longitude)]]

\* what the same request returns without its radius parameter
WithoutRadius ==
    get_queryset(alerts, users, [response.request EXCEPT !.radius = None],
                 <<>>).result

Claim_C2 ==
    (IsList /\ response.filtered) =>
        \A pk \in Cands :
            CoordinatesPresent(alerts[pk]) =>
                (pk \in ResultSet <=>
                    /\ DistanceTo(alerts[pk]).exc = None
                    /\ LessEq(DistanceTo(alerts[pk]).val, RadiusKm))

\* the requester's position is unknown: anonymous, or a coordinate absent
PositionUnknown ==
    \/ response.request.user = None
    \/ Requester.latitude = None
    \/ Requester.longitude = None

Claim_C4 ==
    (IsList /\ response.filtered /\ RadiusKm.kind = "num" /\ RadiusKm.v <= 0) =>
        response.result = <<>>

\* C4 amended: the radius-filtered list of a negative radius is empty; that
\* of radius zero holds exactly the candidates at distance 0.
Theorem_C4 ==
    (IsList /\ response.filtered /\ RadiusKm.kind = "num") =>
        /\ RadiusKm.v < 0 => response.result = <<>>
        /\ RadiusKm.v = 0 =>
              ResultSet = {pk \in Cands :
                              /\ CoordinatesPresent(alerts[pk])
                              /\ DistanceTo(alerts[pk]).exc = None
                              /\ DistanceTo(alerts[pk]).val = 0}

\* radius 0, two candidates, only the one at the requester's position listed
Witness_C4 ==
    /\ IsList /\ response.filtered
    /\ RadiusKm.kind = "num" /\ RadiusKm.v = 0
    /\ Cardinality(Cands) = 2
    /\ Len(response.result) = 1

\* the alert lies at the position of the requester
AtRequester(alert) ==
    /\ alert.latitude = Requester.latitude
    /\ alert.longitude = Requester.longitude

\* the radius of the request parses to a number >= 0 or to +infinity
RadiusNonNegative ==
    /\ TruthyString(response.request.radius)
    /\ float[Val(response.request.radius)].exc = None
    /\ \/ RadiusKm.kind = "num" /\ RadiusKm.v >= 0
       \/ RadiusKm.kind = "inf" /\ RadiusKm.v > 0

\* C5: a candidate whose coordinates are those of the requester has
\* distance 0 and is in the result for every radius >= 0.
Theorem_C5 ==
    (IsList /\ response.request.user # None /\ RadiusNonNegative) =>
        \A pk \in Cands :
            (CoordinatesPresent(alerts[pk]) /\ AtRequester(alerts[pk])) =>
                /\ DistanceTo(alerts[pk]).exc = None
                /\ DistanceTo(alerts[pk]).val = 0
                /\ pk \in ResultSet

\* a filtered list of a positive radius with an alert at the requester's
\* position
Witness_C5 ==
    /\ IsList /\ response.filtered
    /\ RadiusKm.kind = "num" /\ RadiusKm.v > 0
    /\ \E pk \in ResultSet : AtRequester(alerts[pk])

\* s is t with some elements left out, order kept
IsSubSeq(s, t) ==
    /\ SeqToSet(s) \subseteq SeqToSet(t)
    /\ \A i, j \in 1..Len(s) :
          i < j => \E k, l \in 1..Len(t) : k < l /\ t[k] = s[i] /\ t[l] = s[j]

\* C6 as claimed: the filtered result keeps the relative order of the
\* candidate sequence the loop was given.
Claim_C6 ==
    (IsList /\ response.filtered) => IsSubSeq(response.result, response.scanned)

\* C6 amended: the filtered result is ordered by creation time, newest
\* first, whatever the order of the candidate sequence.
Theorem_C6 ==
    (IsList /\ response.filtered) =>
        \A i, j \in 1..Len(response.result) :
            i < j => alerts[response.result[i]].created_at
                       > alerts[response.result[j]].created_at

\* two alerts listed newest first although the loop met the older first and
\* the newer is the farther of the two
Witness_C6 ==
    /\ IsList /\ response.filtered
    /\ Len(response.result) = 2
    /\ response.scanned = <<response.result[2], response.result[1]>>
    /\ DistanceTo(alerts[response.result[1]]).val
         > DistanceTo(alerts[response.result[2]]).val

\* C7: whether a candidate is in the radius-filtered result depends only on
\* that alert, the requester and the radius: it is listed among the other
\* candidates iff it is listed when it is the only alert of the store.
Claim_C7 ==
    IsList =>
        \A pk \in Cands :
            LET alone == get_queryset(<<alerts[pk]>>, users, response.request,
                                      <<1>>)
            IN  alone.filtered => (pk \in ResultSet <=> alone.result # <<>>)

\* the text is a decimal numeral: an optional sign, digits, an optional
\* fraction
IsNumeral(s) ==
    LET body == IF s # <<>> /\ s[1] \in {"+", "-"} THEN Tail(s) ELSE s
    IN  /\ \E i \in 1..Len(body) : body[i] \in Digits
        /\ \A i \in 1..Len(body) : body[i] \in Digits \cup {"."}
        /\ Cardinality({i \in 1..Len(body) : body[i] = "."}) <= 1

\* C8: for every radius text that is not a number, the list is the list of
\* the same request without a radius.
Claim_C8 ==
    (IsList /\ response.request.radius # None
            /\ ~IsNumeral(Val(response.request.radius))) =>
        response.result = WithoutRadius

\* the candidates in ascending order of primary key
RECURSIVE OrderByPk(_)
OrderByPk(pks) ==
    IF pks = {} THEN <<>>
    ELSE LET first == CHOOSE pk \in pks : \A other \in pks : pk <= other
         IN  <<first>> \o OrderByPk(pks \ {first})

\* C9: listing alerts changes neither the alerts nor the users, and its
\* result is a function of the store and the parameters: it is the result
\* of the call that iterates the candidates in primary-key order.
Theorem_C9 ==
    [][(response = NoResponse /\ response' # NoResponse) =>
          /\ alerts' = alerts
          /\ users' = users
          /\ clock' = clock
          /\ response'.result =
                get_queryset(alerts, users, response'.request,
                             OrderByPk(Candidates(alerts, response'.request))).result
      ]_vars

\* a filtered list whose loop met the candidates out of primary-key order
Witness_C9 ==
    /\ IsList /\ response.filtered
    /\ Len(response.scanned) = 2
    /\ response.scanned[1] > response.scanned[2]
    /\ response.result # <<>>

\* C10: the distance is symmetric: distance(A, B) = distance(B, A).
Theorem_C10 ==
    (fwd # None /\ bwd # None) =>
        /\ Val(fwd).exc = Val(bwd).exc
        /\ Val(fwd).val = Val(bwd).val

\* both distances computed between points of different latitude and
\* longitude
Witness_C10 ==
    /\ fwd # None /\ bwd # None
    /\ Val(points).a.lat # Val(points).b.lat
    /\ Val(points).a.lon # Val(points).b.lon
    /\ Val(fwd).exc = None /\ Val(fwd).val > 0

(***************************************************************************)
(* Properties of the create and update views                               *)
(***************************************************************************)
\* the submitted text is empty or only blanks (or was not sent)
IsBlank(p) == Strip[Sent(p)] = <<>>

\* the message names the contact or the location field
NamesContact(m) == m = "Contact information is required."

NamesLocation(m) == m = "Location is required."

\* a response of the create view to an authenticated user has just been
\* produced
Created == response = NoResponse /\ response'.view = "alert-create"
               /\ response'.user # None

\* C11: a create submission whose contact_info or location is empty or
\* only whitespace creates no alert, re-displays the form with status 200
\* and shows a message that names the missing field.
Claim_C11 ==
    [][(Created /\ (IsBlank(response'.request.contact_info)
                      \/ IsBlank(response'.request.location))) =>
          /\ alerts' = alerts
          /\ response'.status = 200
          /\ \E i \in 1..Len(response'.messages) :
                \/ /\ IsBlank(response'.request.contact_info)
                   /\ NamesContact(response'.messages[i])
                \/ /\ IsBlank(response'.request.location)
                   /\ NamesLocation(response'.messages[i])]_vars

\* an update request for an existing alert has just been answered
Updated == response = NoResponse /\ response'.view = "alert-update"
               /\ response'.request.pk \in 1..Len(alerts)

\* C12: an update request for an alert from anyone but its owner (another
\* user or an anonymous requester) is refused and leaves every field of
\* every alert unchanged; and a row changes only in an update by its owner.
Theorem_C12 ==
    [][/\ (Updated /\ response'.user # Some(alerts[response'.request.pk].user))
            => /\ response'.status \in {302, 403}
               /\ response'.status = 302 => response'.to = "login"
               /\ alerts' = alerts
       /\ \A pk \in 1..Len(alerts) :
            alerts'[pk] # alerts[pk] =>
                /\ response'.view = "alert-update"
                /\ response'.request.pk = pk
                /\ response'.user = Some(alerts[pk].user)]_vars

\* an alert has been changed by its owner (it was made inactive), and
\* another user's update of an alert has just been refused
Witness_C12 ==
    /\ response.view = "alert-update"
    /\ response.status = 403
    /\ response.request.pk \in 1..Len(alerts)
    /\ FormErrors(UpdateFormClean(response.request.form)) = {}
    /\ \E pk \in 1..Len(alerts) : ~alerts[pk].is_active

(***************************************************************************)
(* Properties of registration                                              *)
(***************************************************************************)
\* a registration has just been answered
Registered == response = NoResponse /\ response'.view = "register"
                  /\ response'.request.method = "POST"

\* the registration omits a required field
OmitsRequired(post) ==
    \/ ~TruthyName(post.username) \/ ~TruthyName(post.email)
    \/ ~TruthyName(post.password) \/ ~TruthyName(post.profile_name)
    \/ ~TruthyString(post.location)

\* the registration uses a username or an email that a user holds
UsesHeld(table, post) ==
    \/ post.username # None /\ Val(post.username) \in DOMAIN table
    \/ post.email # None
          /\ \E u \in DOMAIN table : table[u].email = Val(post.email)

RegisterErrors ==
    {"Please fill in all required fields.",
     "Username already taken. Please choose another.",
     "Email already registered. Please login instead."}

\* C13: a registration that omits any of username, email, password,
\* profile_name or location, or that uses a username or an email held by an
\* existing user, creates no user, logs nobody in and re-displays the form
\* (status 200) with an error message; and every registration answered by
\* the form leaves the user table unchanged.
Theorem_C13 ==
    [][Registered =>
          /\ (OmitsRequired(response'.request)
                 \/ UsesHeld(users, response'.request))
               => /\ response'.status = 200
                  /\ \E i \in 1..Len(response'.messages) :
                        response'.messages[i] \in RegisterErrors
          /\ response'.status = 200
               => users' = users /\ session' = session]_vars

\* after a user has registered, a registration with a fresh username and
\* that user's email has just been rejected
Witness_C13 ==
    /\ response.view = "register"
    /\ response.status = 200
    /\ "u5" \in DOMAIN users
    /\ response.request.username = Some("u4")
    /\ response.request.email = Some(users["u5"].email)
    /\ ~OmitsRequired(response.request)

\* the text is a decimal numeral of a coordinate between -limit and limit
ValidCoordinate(p, limit) ==
    /\ TruthyString(p)
    /\ ToDecimal[Val(p)].exc = None
    /\ Abs[ToDecimal[Val(p)].val] <= limit

\* the registration has all required fields, a fresh username and email
\* and a valid latitude and longitude
Complete(table, post) ==
    /\ ~OmitsRequired(post)
    /\ ~UsesHeld(table, post)
    /\ ValidCoordinate(post.latitude, 90)
    /\ ValidCoordinate(post.longitude, 180)

\* exactly one user was created, with the submitted coordinates and the
\* given location, was logged in and redirected to home
CreatedWith(post, location) ==
    /\ DOMAIN users' = DOMAIN users \cup {Val(post.username)}
    /\ \A u \in DOMAIN users : users'[u] = users[u]
    /\ users'[Val(post.username)].location = location
    /\ users'[Val(post.username)].latitude
          = Some(ToDecimal[Val(post.latitude)].val)
    /\ users'[Val(post.username)].longitude
          = Some(ToDecimal[Val(post.longitude)].val)
    /\ session' = Some(Val(post.username))
    /\ response'.status = 302
    /\ response'.to = "home"

Served(r) == ~(r.status = 302 /\ r.to = "login")

\* the credentials name no user, or not with that user's password
WrongCredentials(table, post) ==
    \/ post.username = None \/ post.password = None
    \/ Val(post.username) \notin DOMAIN table
    \/ table[Val(post.username)].password # Val(post.password)

\* C15: across any sequence of login, logout, profile and edit-profile
\* requests of a session, the profile and edit-profile pages are served
\* exactly when the most recent successful login has not been followed by a
\* logout; a login with a wrong password or an unknown username leaves the
\* session as it was (an unauthenticated one unauthenticated) and answers
\* with the form; an unauthenticated request to those pages is redirected
\* to login and changes no user.
Theorem_C15 ==
    [][/\ (response = NoResponse
             /\ response'.view \in {"profile", "edit_profile"})
          => IF lastAuthEvent = "login"
             THEN Served(response') /\ response'.user = session
             ELSE /\ response'.status = 302
                  /\ response'.to = "login"
                  /\ users' = users
       /\ (response = NoResponse /\ response'.view = "login"
             /\ response'.request.method = "POST"
             /\ WrongCredentials(users, response'.request))
          => /\ session' = session
             /\ lastAuthEvent' = lastAuthEvent
             /\ response'.status = 200
             /\ users' = users]_vars

\* after a login, a served edit and a logout, a request for the profile
\* page has been redirected to login
Witness_C15 ==
    /\ lastAuthEvent = "logout"
    /\ response.view = "profile"
    /\ response.status = 302
    /\ response.to = "login"
    /\ users["u1"].profile_name = "New"

\* an authenticated edit of the profile has just been answered
Edited == response = NoResponse /\ response'.view = "edit_profile"
              /\ response'.request.method = "POST" /\ session # None

\* the form asks for a manual address
ManualAddress(post) == post.use_manual_address /\ TruthyString(post.location)

\* C16: a profile edit whose profile_name is missing, or that submits a
\* manual address for which geocoding finds no result, is answered by the
\* edit form (status 200) with a message, and every edit answered by the
\* form leaves the whole user table, hence profile_name, phone_number,
\* bio, location, latitude and longitude of the user, unchanged.
Theorem_C16 ==
    [][Edited =>
          /\ \A geocoded \in Geocodes, reversed \in ReverseGeocodes :
                (/\ EditProfile(response'.request, geocoded, reversed)
                 /\ \/ ~TruthyName(response'.request.profile_name)
                    \/ ManualAddress(response'.request) /\ geocoded = None)
                => /\ response'.status = 200
                   /\ response'.messages # <<>>
          /\ response'.status = 200 => users' = users]_vars

\* after an edit that changed the user, an edit with a manual address that
\* geocoding did not find has been rejected
Witness_C16 ==
    /\ response.view = "edit_profile"
    /\ response.status = 200
    /\ response.request.method = "POST"
    /\ response.request.profile_name = Some("New")
    /\ response.messages
          = <<"Could not find that address. Please try a different format.">>
    /\ users["u1"].phone_number = "555"
    /\ users["u1"].latitude = Some(5)

\* C17: a profile edit with use_manual_address set and an address that
\* geocoding resolves replaces the user's location, latitude and longitude,
\* all three, by the display name and the coordinates of the geocoding
\* result, whatever latitude and longitude the request submits.
Claim_C17 ==
    [][Edited =>
          \A geocoded \in Geocodes \ {None}, reversed \in ReverseGeocodes :
             (/\ EditProfile(response'.request, geocoded, reversed)
              /\ TruthyName(response'.request.profile_name)
              /\ ManualAddress(response'.request))
             => /\ users'[Val(session)].location = Val(geocoded).display_name
                /\ users'[Val(session)].latitude
                      = Some(Val(geocoded).latitude)
                /\ users'[Val(session)].longitude
                      = Some(Val(geocoded).longitude)]_vars

\* C18: a profile edit that resubmits the user's current location text with
\* use_manual_address set and a new profile name succeeds and changes only
\* the profile name: location, latitude and longitude are stored as before.
Claim_C18 ==
    [][(/\ Edited
        /\ response'.request.use_manual_address
        /\ response'.request.location = Some(users[Val(session)].location)
        /\ TruthyName(response'.request.profile_name))
       => /\ response'.status = 302
          /\ users'[Val(session)].profile_name
                = Val(response'.request.profile_name)
          /\ users'[Val(session)].location = users[Val(session)].location
          /\ users'[Val(session)].latitude = users[Val(session)].latitude
          /\ users'[Val(session)].longitude
                = users[Val(session)].longitude]_vars

(***************************************************************************)
(* Properties of the store                                                 *)
(***************************************************************************)
\* no two threads have the same (user1, user2)
UniquePairs ==
    \A t1, t2 \in db.threads :
        (t1.user1 = t2.user1 /\ t1.user2 = t2.user2) => t1 = t2

\* C19: after any sequence of creations (and deletions) there are never two
\* message threads with the same (user1, user2); creating a thread for a
\* pair that a thread already has fails with IntegrityError and leaves the
\* store unchanged, and creating one for any other pair adds one thread.
Theorem_C19 ==
    /\ []UniquePairs
    /\ [][(response = NoResponse /\ response'.view = "create_thread") =>
             IF \E t \in db.threads : /\ t.user1 = response'.request.user1
                                      /\ t.user2 = response'.request.user2
             THEN response'.exc = Some(IntegrityError) /\ db' = db
             ELSE /\ response'.exc = None
                  /\ db.threads \subseteq db'.threads
                  /\ Cardinality(db'.threads) = Cardinality(db.threads) + 1
          ]_vars

\* with threads for two pairs in the store, the creation of a second thread
\* for one of the pairs has failed
Witness_C19 ==
    /\ response.view = "create_thread"
    /\ response.exc = Some(IntegrityError)
    /\ Cardinality(db.threads) = 2

\* every foreign key of every row names a row of the store
NoDangling ==
    /\ \A p \in db.pets : p.owner \in Ids(db.users)
    /\ \A x \in db.playdates :
          x.pet \in Ids(db.pets) /\ x.organizer \in Ids(db.users)
    /\ \A t \in db.threads :
          /\ {t.user1, t.user2} \subseteq Ids(db.users)
          /\ t.playdate # None => Val(t.playdate) \in Ids(db.playdates)
    /\ \A m \in db.messages :
          m.thread \in Ids(db.threads) /\ m.sender \in Ids(db.users)

\* a row has just been deleted
Deleted == response = NoResponse /\ response'.view = "delete"

\* C20: after any sequence of creations and deletions of users, pets,
\* playdates, threads and messages no row references a missing row; a
\* deletion removes, besides the row itself, only rows that reference a
\* removed row through a cascading key, and a thread whose participants
\* remain survives the deletion of its playdate with the reference cleared.
Theorem_C20 ==
    /\ []NoDangling
    /\ [][Deleted =>
             /\ \A p \in db.pets \ db'.pets :
                   \/ response'.request.table = "pets"
                   \/ p.owner \notin Ids(db'.users)
             /\ \A x \in db.playdates \ db'.playdates :
                   \/ response'.request.table = "playdates"
                   \/ x.pet \notin Ids(db'.pets)
                   \/ x.organizer \notin Ids(db'.users)
             /\ \A m \in db.messages \ db'.messages :
                   \/ response'.request.table = "messages"
                   \/ m.thread \notin Ids(db'.threads)
                   \/ m.sender \notin Ids(db'.users)
             /\ \A t \in db.threads :
                   (/\ response'.request.table # "threads"
                    /\ {t.user1, t.user2} \subseteq Ids(db'.users))
                   => IF t.playdate # None
                         /\ Val(t.playdate) \notin Ids(db'.playdates)
                      THEN /\ [t EXCEPT !.playdate = None] \in db'.threads
                           /\ t.id \in response'.cleared
                      ELSE t \in db'.threads
          ]_vars

\* a pet has been deleted, its playdate with it, and the thread about that
\* playdate is still there, with its message and without the playdate
Witness_C20 ==
    /\ response.view = "delete"
    /\ response.request.table = "pets"
    /\ response.cleared # {}
    /\ db.playdates = {}
    /\ \E m \in db.messages : m.thread \in response.cleared

(***************************************************************************)
(* Properties of sending a message                                         *)
(***************************************************************************)
\* a send attempt has just been answered
SendAnswered == response = NoResponse /\ response'.view = "send_message"

\* the requester is authenticated and a participant of the thread asked for
MaySend(d, user, pk) ==
    /\ user # None
    /\ \E t \in d.threads : t.id = pk /\ Val(user) \in {t.user1, t.user2}

\* every message was sent by a participant of its thread
SentByParticipants ==
    \A m \in db.messages :
        \E t \in db.threads : t.id = m.thread /\ m.sender \in {t.user1, t.user2}

PageDistance(row) ==
    DistanceBetween[
        [lat |-> Val(users[Val(Val(listing).request.user)].latitude),
         lon |-> Val(users[Val(Val(listing).request.user)].longitude)],
        [lat |-> Val(row.latitude), lon |-> Val(row.longitude)]]

\* C22: when alerts are updated while a radius-filtered list is being
\* served, every alert delivered in the page has coordinates, as
\* delivered, within the requested radius of the requester.
Claim_C22 ==
    (/\ listing # None
     /\ Val(listing).phase = "page"
     /\ Val(listing).filtered)
    => \A i \in 1..Len(Val(listing).rows) :
          /\ CoordinatesPresent(Val(listing).rows[i])
          /\ PageDistance(Val(listing).rows[i]).exc = None
          /\ LessEq(PageDistance(Val(listing).rows[i]).val,
                    float[Val(Val(listing).request.radius)].val)

====
